---- MODULE Spec2Model ----
(***************************************************************************)
(* Model of src/prototype.py: quantities as a coefficient and a sparse map *)
(* of integer unit exponents, the catalog of conversion equations and its  *)
(* per-unit index, the random walk Quantity.random_convert, and the SI     *)
(* prefix selection get_si used by Quantity.to_string.                     *)
(*                                                                         *)
(* Representation.  A dict[str, int] is a function whose DOMAIN is the set *)
(* of stored keys, so that a stored zero and a missing key are different.  *)
(* A coefficient is a positive rational written as the function from the   *)
(* primes of Primes to the integer power of each prime: products, powers   *)
(* and reciprocals are exact (float rounding is not modelled).  The unit   *)
(* name 'ampère' is written "ampere".                                      *)
(***************************************************************************)
EXTENDS Integers, Sequences, FiniteSets, TLC

VARIABLES pc, start, max_rounds, n_rounds, reciprocated, output,
          CONV_BY_UNIT, last, err, rendered

vars == <<pc, start, max_rounds, n_rounds, reciprocated, output,
          CONV_BY_UNIT, last, err, rendered>>

----------------------------------------------------------------------------
(* Bounds *)

MaxMaxRounds == 2
MaxStartExp == 2
MaxRTExp == 3
MaxDec == 40
MaxPow == 3

----------------------------------------------------------------------------
(* Coefficients *)

Primes == {2, 3, 5, 7, 11, 19}

PV(f) == [p \in Primes |-> IF p \in DOMAIN f THEN f[p] ELSE 0]

CoeffOne == [p \in Primes |-> 0]

CoeffMul(a, b) == [p \in Primes |-> a[p] + b[p]]

CoeffPow(a, k) == [p \in Primes |-> k * a[p]]

Pow10(k) == PV(2 :> k @@ 5 :> k)

RECURSIVE IntPow(_, _)
IntPow(b, e) == IF e <= 0 THEN 1 ELSE b * IntPow(b, e - 1)

Max(a, b) == IF a >= b THEN a ELSE b

Min(a, b) == IF a <= b THEN a ELSE b

Abs(a) == IF a < 0 THEN -a ELSE a

RECURSIVE ProdPos(_, _)
ProdPos(c, ps) ==
    IF ps = {} THEN 1
    ELSE LET p == CHOOSE x \in ps : TRUE
         IN IntPow(p, Max(c[p], 0)) * ProdPos(c, ps \ {p})

RECURSIVE FloorLog10Ratio(_, _)
FloorLog10Ratio(num, den) ==
    IF num < den THEN FloorLog10Ratio(10 * num, den) - 1
    ELSE IF num >= 10 * den THEN FloorLog10Ratio(num, 10 * den) + 1
    ELSE 0

(* math.floor(math.log10(abs(x))): x = 10^t * r with r free of the prime 5 *)
FloorLog10(x) ==
    LET t == x[5]
        r == CoeffMul(x, Pow10(-t))
    IN t + FloorLog10Ratio(ProdPos(r, Primes), ProdPos(CoeffPow(r, -1), Primes))

----------------------------------------------------------------------------
(* Catalog *)

Quantity(coeff, units) == [coeff |-> coeff, units |-> units]

EmptyUnits == [u \in {} |-> 0]

Get(units, unit) == IF unit \in DOMAIN units THEN units[unit] ELSE 0

lhs(kwargs) == [unit \in DOMAIN kwargs |-> -kwargs[unit]]

rhs(kwargs) == kwargs

(* {**a, **b}: the keys of b override those of a *)
Merge(a, b) == b @@ a

C_1 == CoeffOne
C_jiffy == PV(2 :> -14 @@ 3 :> 1 @@ 5 :> -16 @@ 7 :> 1 @@ 11 :> 1 @@ 19 :> 2)
C_60 == PV(2 :> 2 @@ 3 :> 1 @@ 5 :> 1)
C_24 == PV(2 :> 3 @@ 3 :> 1)
C_7 == PV(7 :> 1)
C_2e3 == PV(2 :> 4 @@ 5 :> 3)

CONVERSIONS == <<
    <<C_1, Merge(lhs("volt" :> 1), rhs("ampere" :> 1 @@ "ohm" :> 1))>>,
    <<C_1, Merge(lhs("watt" :> 1), rhs("volt" :> 1 @@ "ampere" :> 1))>>,
    <<C_1, Merge(lhs("ampere" :> 1), rhs("coulomb" :> 1 @@ "second" :> -1))>>,
    <<C_1, Merge(lhs("siemen" :> 1), rhs("ohm" :> -1))>>,
    <<C_1, Merge(lhs("hertz" :> 1), rhs("second" :> -1))>>,
    <<C_jiffy, Merge(lhs("jiffy" :> 1), rhs("second" :> 1))>>,
    <<C_60, Merge(lhs("minute" :> 1), rhs("second" :> 1))>>,
    <<C_60, Merge(lhs("hour" :> 1), rhs("minute" :> 1))>>,
    <<C_24, Merge(lhs("day" :> 1), rhs("hour" :> 1))>>,
    <<C_7, Merge(lhs("week" :> 1), rhs("day" :> 1))>>
>>

CatalogUnits == UNION {DOMAIN CONVERSIONS[i][2] : i \in 1..Len(CONVERSIONS)}

Mentions(unit, conv_pair) == unit \in DOMAIN conv_pair[2]

AsQuantity(conv_pair) == Quantity(conv_pair[1], conv_pair[2])

RECURSIVE MapSeq(_, _)
MapSeq(s, i) ==
    IF i > Len(s) THEN <<>> ELSE <<AsQuantity(s[i])>> \o MapSeq(s, i + 1)

(* by_unit[unit].conversions after the two loops of index_all *)
index_all ==
    [unit \in CatalogUnits |->
        MapSeq(SelectSeq(CONVERSIONS, LAMBDA cp : Mentions(unit, cp)), 1)]

(* CONV_BY_UNIT[target_unit] on a defaultdict: a missing key is inserted *)
(* with a fresh ConvIndex whose conversions list is empty                *)
defaultdict_getitem(by_unit, unit) ==
    IF unit \in DOMAIN by_unit THEN by_unit
    ELSE [k \in DOMAIN by_unit \cup {unit} |->
            IF k = unit THEN <<>> ELSE by_unit[k]]

----------------------------------------------------------------------------
(* Quantity *)

(* variant: the new exponent is kept even when it is 0 *)
unit_pairs_keep_zero(self, units, sign) ==
    LET new_exp(unit) == Get(units, unit) + sign * Get(self.units, unit)
    IN [unit \in DOMAIN units \cup DOMAIN self.units |-> new_exp(unit)]

(* variant: only the keys of the argument are visited, not the union *)
unit_pairs_arg_keys(self, units, sign) ==
    LET new_exp(unit) == Get(units, unit) + sign * Get(self.units, unit)
    IN [unit \in {k \in DOMAIN units : new_exp(k) /= 0} |-> new_exp(unit)]

unit_pairs(self, units, sign) ==
    LET new_exp(unit) == Get(units, unit) + sign * Get(self.units, unit)
    IN [unit \in {k \in DOMAIN units \cup DOMAIN self.units : new_exp(k) /= 0}
            |-> new_exp(unit)]

(* self.units[target_unit] or other.units[target_unit] raises KeyError *)
multiply_KeyError(self, other, target_unit) ==
    \/ target_unit \notin DOMAIN self.units
    \/ target_unit \notin DOMAIN other.units

(* variant: the comparison is > instead of < *)
multiply_sign_gt(self, other, target_unit) ==
    IF self.units[target_unit] > other.units[target_unit] THEN 1 ELSE -1

multiply_sign(self, other, target_unit) ==
    IF self.units[target_unit] < other.units[target_unit] THEN 1 ELSE -1

multiply(self, other, target_unit) ==
    LET sign == multiply_sign(self, other, target_unit)
    IN Quantity(CoeffMul(CoeffPow(self.coeff, sign), other.coeff),
                unit_pairs(self, other.units, sign))

(* variant: the coefficient is inverted but the exponents are not negated *)
reciprocal_coeff_only(self) ==
    Quantity(CoeffPow(self.coeff, -1), self.units)

reciprocal(self) ==
    Quantity(CoeffPow(self.coeff, -1),
             [unit \in DOMAIN self.units |-> -self.units[unit]])

----------------------------------------------------------------------------
(* Inputs of the walk *)

NonZero(n) == (-n..n) \ {0}

OtherUnits == {"metre"}

AllUnits == CatalogUnits \cup OtherUnits

StartQuantities ==
    {Quantity(C_2e3, u :> e) : u \in AllUnits, e \in NonZero(MaxStartExp)}
    \cup {Quantity(CoeffOne, u :> a @@ v :> b) :
            u \in CatalogUnits, v \in CatalogUnits, a \in {-1, 1}, b \in {-1, 1}}

NoRound(q) == [acted |-> FALSE, before |-> q, target |-> "", entry |-> q]

NoRender == [done |-> FALSE]

----------------------------------------------------------------------------
(* Quantity.random_convert *)

Init ==
    /\ start \in StartQuantities
    /\ max_rounds \in 1..MaxMaxRounds
    /\ pc = "start"
    /\ n_rounds = 0
    /\ reciprocated = FALSE
    /\ output = start
    /\ CONV_BY_UNIT = index_all
    /\ last = NoRound(start)
    /\ err = ""
    /\ rendered = NoRender

(* lines 193-197: the optional reciprocal and the choice of n_rounds *)
Begin ==
    /\ pc = "start"
    /\ \E coin \in BOOLEAN, n \in 1..max_rounds :
          /\ output' = IF coin THEN reciprocal(output) ELSE output
          /\ reciprocated' = coin
          /\ n_rounds' = n
    /\ pc' = "rounds"
    /\ UNCHANGED <<start, max_rounds, CONV_BY_UNIT, last, err, rendered>>

(* lines 198-203: one iteration of the loop *)
Round ==
    /\ pc = "rounds"
    /\ n_rounds > 0
    /\ LET reduce_options == DOMAIN output.units
       IN IF reduce_options = {}
          THEN /\ pc' = "error"
               /\ err' = "IndexError"
               /\ UNCHANGED <<output, CONV_BY_UNIT, last, n_rounds>>
          ELSE \E target_unit \in reduce_options :
                 LET by_unit == defaultdict_getitem(CONV_BY_UNIT, target_unit)
                     conversions == by_unit[target_unit]
                 IN /\ CONV_BY_UNIT' = by_unit
                    /\ IF Len(conversions) = 0
                       THEN /\ pc' = "error"
                            /\ err' = "IndexError"
                            /\ UNCHANGED <<output, last, n_rounds>>
                       ELSE \E i \in 1..Len(conversions) :
                              LET entry == conversions[i]
                              IN IF multiply_KeyError(entry, output, target_unit)
                                 THEN /\ pc' = "error"
                                      /\ err' = "KeyError"
                                      /\ UNCHANGED <<output, last, n_rounds>>
                                 ELSE /\ output' = multiply(entry, output, target_unit)
                                      /\ last' = [acted |-> TRUE,
                                                  before |-> output,
                                                  target |-> target_unit,
                                                  entry |-> entry]
                                      /\ n_rounds' = n_rounds - 1
                                      /\ UNCHANGED <<pc, err>>
    /\ UNCHANGED <<start, max_rounds, reciprocated, rendered>>

(* line 204 *)
Return ==
    /\ pc = "rounds"
    /\ n_rounds = 0
    /\ pc' = "done"
    /\ UNCHANGED <<start, max_rounds, n_rounds, reciprocated, output,
                   CONV_BY_UNIT, last, err, rendered>>

Next == Begin \/ Round \/ Return

Spec == Init /\ [][Next]_vars

----------------------------------------------------------------------------
(* multiply with an equation, then with the equation's reciprocal *)

RTQuantities ==
    {Quantity(C_2e3, u :> e) : u \in CatalogUnits, e \in NonZero(MaxRTExp)}
    \cup {Quantity(CoeffOne, u :> a @@ v :> b) :
            u \in CatalogUnits, v \in CatalogUnits, a \in {-1, 1}, b \in {-1, 1}}

InitRT ==
    /\ start \in RTQuantities
    /\ max_rounds = 1
    /\ pc = "rt_start"
    /\ n_rounds = 0
    /\ reciprocated = FALSE
    /\ output = start
    /\ CONV_BY_UNIT = index_all
    /\ last = NoRound(start)
    /\ err = ""
    /\ rendered = NoRender

(* entry.multiply(output, target_unit) for a catalog entry mentioning the unit *)
RTForward ==
    /\ pc = "rt_start"
    /\ \E target_unit \in DOMAIN output.units, i \in 1..Len(CONVERSIONS) :
          /\ Mentions(target_unit, CONVERSIONS[i])
          /\ LET entry == AsQuantity(CONVERSIONS[i])
             IN IF multiply_KeyError(entry, output, target_unit)
                THEN /\ pc' = "rt_error"
                     /\ err' = "KeyError"
                     /\ UNCHANGED <<output, last>>
                ELSE /\ output' = multiply(entry, output, target_unit)
                     /\ last' = [acted |-> TRUE, before |-> output,
                                 target |-> target_unit, entry |-> entry]
                     /\ pc' = "rt_forward"
                     /\ err' = err
    /\ UNCHANGED <<start, max_rounds, n_rounds, reciprocated, CONV_BY_UNIT, rendered>>

(* entry.reciprocal.multiply(output, target_unit) on the result of RTForward *)
RTInverse ==
    /\ pc = "rt_forward"
    /\ LET inverse == reciprocal(last.entry)
       IN IF multiply_KeyError(inverse, output, last.target)
          THEN /\ pc' = "rt_error"
               /\ err' = "KeyError"
               /\ UNCHANGED <<output, last>>
          ELSE /\ output' = multiply(inverse, output, last.target)
               /\ last' = [acted |-> TRUE, before |-> output,
                           target |-> last.target, entry |-> inverse]
               /\ pc' = "rt_done"
               /\ err' = err
    /\ UNCHANGED <<start, max_rounds, n_rounds, reciprocated, CONV_BY_UNIT, rendered>>

NextRT == RTForward \/ RTInverse

SpecRT == InitRT /\ [][NextRT]_vars

----------------------------------------------------------------------------
(* get_si and Quantity.to_string *)

SI_KEYS == <<-30, -27, -24, -21, -18, -15, -12, -9, -6, -3, -2, -1,
             0, 1, 2, 3, 6, 9, 12, 15, 18, 21, 24, 27, 30>>

SI_NAMES == <<"quecto", "ronto", "yocto", "zepto", "atto", "femto", "pico",
              "nano", "micro", "milli", "centi", "deci", "", "deca", "hecto",
              "kilo", "mega", "giga", "tera", "peta", "exa", "zetta", "yotta",
              "ronna", "quetta">>

SI_PREFIXES ==
    [k \in {SI_KEYS[i] : i \in 1..Len(SI_KEYS)} |->
        SI_NAMES[CHOOSE i \in 1..Len(SI_KEYS) : SI_KEYS[i] = k]]

Range(s) == {s[i] : i \in 1..Len(s)}

(* a number x = x[1] / x[2] with x[2] > 0: the quotients (exp - 6)/n and  *)
(* (exp + 6)/n are compared exactly                                      *)
Rat(num, den) == <<num, den>>

RatLess(x, y) == x[1] * y[2] < y[1] * x[2]

RatMax(x, y) == IF RatLess(x, y) THEN y ELSE x

RatMin(x, y) == IF RatLess(y, x) THEN y ELSE x

(* bisect_left(a, x) on a sorted a: the number of elements less than x *)
bisect_left(a, x) == Cardinality({i \in 1..Len(a) : RatLess(Rat(a[i], 1), x)})

(* a[lo:hi] for 0 <= lo, 0 <= hi *)
Slice(a, lo, hi) == SubSeq(a, lo + 1, Min(hi, Len(a)))

(* units ending in s or z: re.search(r'[sz]$', unit) *)
EndsInSZ == {"hertz"}

get_plural(ends_in_sz) == IF ends_in_sz THEN "" ELSE "s"

(* lines 140-151: the numerator slot; num_powers[0] > 0 *)
get_si_num(keys, exp, use_num, num_powers) ==
    IF use_num
    THEN LET n == num_powers[1]
             num_min == RatMax(Rat(keys[1], 1), Rat(exp - 6, n))
             num_max == RatMin(Rat(keys[Len(keys)], 1), Rat(exp + 6, n))
             num_choices == Slice(keys, bisect_left(keys, num_min),
                                        bisect_left(keys, num_max))
         IN IF num_choices = <<>>
            THEN {[error |-> TRUE, num |-> 0, exp_new |-> exp]}
            ELSE {[error |-> FALSE, num |-> num, exp_new |-> exp - num * n] :
                     num \in Range(num_choices)}
    ELSE {[error |-> FALSE, num |-> 0, exp_new |-> exp]}

(* variant: the slice of den_choices ends at bisect_left(keys, den_max) *)
get_si_den_no_plus_one(keys, exp_new, use_den) ==
    IF use_den
    THEN LET den_min == Max(keys[1], exp_new - 6)
             den_max == Min(keys[Len(keys)], exp_new + 6)
             den_choices == Slice(keys,
                                  bisect_left(keys, Rat(den_min, 1)),
                                  bisect_left(keys, Rat(den_max, 1)))
         IN IF den_choices = <<>>
            THEN {[error |-> TRUE, den |-> 0]}
            ELSE {[error |-> FALSE, den |-> den] : den \in Range(den_choices)}
    ELSE {[error |-> FALSE, den |-> 0]}

(* lines 153-163: the denominator slot *)
get_si_den(keys, exp_new, use_den) ==
    IF use_den
    THEN LET den_min == Max(keys[1], exp_new - 6)
             den_max == Min(keys[Len(keys)], exp_new + 6)
             den_choices == Slice(keys,
                                  bisect_left(keys, Rat(den_min, 1)),
                                  bisect_left(keys, Rat(den_max, 1)) + 1)
         IN IF den_choices = <<>>
            THEN {[error |-> TRUE, den |-> 0]}
            ELSE {[error |-> FALSE, den |-> den] : den \in Range(den_choices)}
    ELSE {[error |-> FALSE, den |-> 0]}

(* the outcomes of get_si over its random draws; error is the IndexError *)
(* of random.choice on an empty slice                                    *)
get_si(x, num_powers, den_powers) ==
    LET keys == SI_KEYS
        exp == FloorLog10(x)
        Outcome(use_num, use_den, error, num, exp_new, den) ==
            [error |-> error, exp |-> exp, use_num |-> use_num,
             use_den |-> use_den, num |-> num, exp_new |-> exp_new,
             den |-> den, exp_adj |-> den - num,
             num_pre |-> SI_PREFIXES[num], den_pre |-> SI_PREFIXES[den]]
    IN UNION {
         LET use_num == Len(num_powers) = 1 /\ coin_num
             use_den == Len(den_powers) = 1 /\ coin_den
         IN UNION {
              IF rn.error
              THEN {Outcome(use_num, use_den, TRUE, 0, exp, 0)}
              ELSE {Outcome(use_num, use_den, rd.error, rn.num, rn.exp_new, rd.den) :
                       rd \in get_si_den(keys, rn.exp_new, use_den)}
              : rn \in get_si_num(keys, exp, use_num, num_powers)}
         : coin_num \in BOOLEAN, coin_den \in BOOLEAN}

RECURSIVE SetToSeq(_)
SetToSeq(S) ==
    IF S = {} THEN <<>>
    ELSE LET u == CHOOSE x \in S : TRUE IN <<u>> \o SetToSeq(S \ {u})

(* the (unit, exp) pairs with exp > 0, and their exponents *)
format_numerator(self) ==
    LET pairs == SetToSeq({u \in DOMAIN self.units : self.units[u] > 0})
    IN [inverse |-> pairs = <<>>,
        units |-> pairs,
        division |-> IF pairs = <<>> THEN "" ELSE "per ",
        num_powers |-> [i \in 1..Len(pairs) |-> self.units[pairs[i]]]]

(* the (unit, exp) pairs with exp < 0, and their exponents *)
format_denominator(self) ==
    LET pairs == SetToSeq({u \in DOMAIN self.units : self.units[u] < 0})
    IN [units |-> pairs,
        den_powers |-> [i \in 1..Len(pairs) |-> self.units[pairs[i]]]]

(* the outcomes of to_string; exp_adj is assigned only when maybe_si, and *)
(* line 250 reads it on both paths                                       *)
to_string(self, maybe_si) ==
    LET fnum == format_numerator(self)
        fden == format_denominator(self)
        den == fden.units
        last_den == den[Len(den)]
        den_plural ==
            IF den /= <<>> /\ fnum.division /= "per "
            THEN get_plural(self.units[last_den] = -1 /\ last_den \in EndsInSZ)
            ELSE ""
        Raised(error) == [done |-> FALSE, error |-> error]
        Returned(si) ==
            [done |-> TRUE, error |-> "", maybe_si |-> maybe_si,
             coeff |-> CoeffMul(self.coeff, Pow10(si.exp_adj)),
             num |-> fnum, den |-> fden, den_plural |-> den_plural, si |-> si]
    IN IF maybe_si
       THEN {IF si.error THEN Raised("IndexError") ELSE Returned(si) :
                si \in get_si(self.coeff, fnum.num_powers, fden.den_powers)}
       ELSE {Raised("UnboundLocalError")}

RenderUnits ==
    {"metre" :> n : n \in 1..MaxPow}
    \cup {"second" :> m : m \in -MaxPow..-1}
    \cup {"metre" :> n @@ "second" :> m : n \in 1..MaxPow, m \in -MaxPow..-1}
    \cup {"ampere" :> 1 @@ "ohm" :> 1, "hertz" :> -1, EmptyUnits,
          "ampere" :> 1 @@ "ohm" :> 1 @@ "second" :> -1 @@ "metre" :> -1}

RenderCoeffs ==
    {Pow10(k) : k \in -MaxDec..MaxDec} \cup {C_2e3, C_60, C_jiffy, CoeffPow(C_7, -1)}

InitSI ==
    /\ start \in {Quantity(c, u) : c \in RenderCoeffs, u \in RenderUnits}
    /\ max_rounds = 1
    /\ pc = "done"
    /\ n_rounds = 0
    /\ reciprocated = FALSE
    /\ output = start
    /\ CONV_BY_UNIT = index_all
    /\ last = NoRound(start)
    /\ err = ""
    /\ rendered = NoRender

(* output.to_string(maybe_si) *)
Render ==
    /\ pc = "done"
    /\ \E maybe_si \in BOOLEAN :
          \E r \in to_string(output, maybe_si) :
             /\ rendered' = IF r.done THEN r ELSE rendered
             /\ err' = r.error
             /\ pc' = IF r.done THEN "rendered" ELSE "error"
    /\ UNCHANGED <<start, max_rounds, n_rounds, reciprocated, output,
                   CONV_BY_UNIT, last>>

NextSI == Render

SpecSI == InitSI /\ [][NextSI]_vars

----------------------------------------------------------------------------
(* Helpers of the properties *)

(* pointwise sum of two exponent maps, zero results absent *)
PointwiseSum(a, b) ==
    [u \in {k \in DOMAIN a \cup DOMAIN b : Get(a, k) + Get(b, k) /= 0}
        |-> Get(a, u) + Get(b, u)]

BaseUnits == {"coulomb", "second", "ohm", "metre"}

Base(f) == [b \in BaseUnits |-> IF b \in DOMAIN f THEN f[b] ELSE 0]

(* each unit reduced to base units through the catalog equations *)
Canon ==
    [u \in AllUnits |->
        CASE u = "volt" -> Base("coulomb" :> 1 @@ "second" :> -1 @@ "ohm" :> 1)
          [] u = "watt" -> Base("coulomb" :> 2 @@ "second" :> -2 @@ "ohm" :> 1)
          [] u = "ampere" -> Base("coulomb" :> 1 @@ "second" :> -1)
          [] u = "siemen" -> Base("ohm" :> -1)
          [] u = "hertz" -> Base("second" :> -1)
          [] u \in {"jiffy", "minute", "hour", "day", "week"} -> Base("second" :> 1)
          [] OTHER -> Base(u :> 1)]

RECURSIVE DimOver(_, _, _)
DimOver(units, us, b) ==
    IF us = {} THEN 0
    ELSE LET u == CHOOSE x \in us : TRUE
         IN units[u] * Canon[u][b] + DimOver(units, us \ {u}, b)

Dim(units) == [b \in BaseUnits |-> DimOver(units, DOMAIN units, b)]

NegDim(d) == [b \in BaseUnits |-> -d[b]]

OverCatalog(q) ==
    /\ DOMAIN q.units /= {}
    /\ DOMAIN q.units \subseteq CatalogUnits
    /\ \A u \in DOMAIN q.units : q.units[u] /= 0

----------------------------------------------------------------------------
(* Properties of the walk (specification Spec) *)

(* C1: in every round the exponent of the target unit is pulled toward
   zero: its absolute value after the round is not larger than before. *)
C1_TargetPulledTowardZero ==
    last.acted =>
        Abs(Get(output.units, last.target)) <= Abs(last.before.units[last.target])

(* C2 as stated: every quantity random_convert returns has the same
   base-unit exponents as the start quantity, reciprocal step included. *)
C2_SameDimensionAlways ==
    pc = "done" => Dim(output.units) = Dim(start.units)

(* C2 amended: every quantity random_convert returns has the base-unit
   exponents of the start quantity when the reciprocal step was not taken,
   and exactly the negated base-unit exponents when it was taken. *)
C2_DimensionUpToReciprocal ==
    pc = "done" =>
        Dim(output.units) = IF reciprocated THEN NegDim(Dim(start.units))
                            ELSE Dim(start.units)

C2_Witness ==
    /\ pc = "done"
    /\ reciprocated
    /\ last.acted
    /\ DOMAIN output.units /= DOMAIN start.units
    /\ Dim(start.units) /= NegDim(Dim(start.units))
    /\ Dim(output.units) = NegDim(Dim(start.units))

(* C3: a round on Quantity(2000, {volt: 1}) with the equation
   (1, {volt: -1, ampere: 1, ohm: 1}) and target volt yields coefficient
   2000 and exponents exactly {ampere: 1, ohm: 1}; whenever the quantity
   has +1 and the equation -1 on the target unit, the result's exponents
   are the pointwise sum with the target absent and the coefficient is the
   product of the two coefficients. *)
C3_CancelByOneStep ==
    (/\ last.acted
     /\ last.before.units[last.target] = 1
     /\ last.entry.units[last.target] = -1)
    => /\ output.units = PointwiseSum(last.before.units, last.entry.units)
       /\ last.target \notin DOMAIN output.units
       /\ output.coeff = CoeffMul(last.before.coeff, last.entry.coeff)
       /\ (/\ last.before = Quantity(C_2e3, "volt" :> 1)
           /\ last.entry = AsQuantity(CONVERSIONS[1]))
          => output = Quantity(C_2e3, "ampere" :> 1 @@ "ohm" :> 1)

C3_Witness ==
    /\ last.acted
    /\ last.target = "volt"
    /\ last.before = Quantity(C_2e3, "volt" :> 1)
    /\ last.entry = AsQuantity(CONVERSIONS[1])
    /\ output = Quantity(C_2e3, "ampere" :> 1 @@ "ohm" :> 1)

(* C5: no produced quantity stores a unit with exponent 0: after a
   reciprocal every stored exponent is non-zero, and after a round a unit
   is stored exactly when its combined exponent is non-zero, with exactly
   that value. *)
C5_NoZeroEntries ==
    /\ \A u \in DOMAIN output.units : output.units[u] /= 0
    /\ last.acted =>
         \E sign \in {1, -1} :
            \A u \in AllUnits :
               LET combined == Get(last.before.units, u)
                                 + sign * Get(last.entry.units, u)
               IN IF combined = 0 THEN u \notin DOMAIN output.units
                  ELSE u \in DOMAIN output.units /\ output.units[u] = combined

C5_Witness ==
    /\ last.acted
    /\ reciprocated
    /\ last.target \in DOMAIN last.before.units
    /\ last.target \notin DOMAIN output.units
    /\ DOMAIN output.units /= {}

(* C6: random_convert never changes the index: the keys of CONV_BY_UNIT
   and the list of equations under each key stay as index construction
   left them, whether the call returns or ends in an error. *)
C6_IndexReadOnly ==
    CONV_BY_UNIT = index_all

(* C9: a walk over catalog units never fails: for a start quantity with a
   non-empty map of non-zero exponents over catalog units, random_convert
   never ends in an error. *)
C9_WalkNeverFails ==
    OverCatalog(start) => pc /= "error"

----------------------------------------------------------------------------
(* Properties of the round trip (specification SpecRT) *)

(* C4 as stated: multiply with an equation on a target unit and then
   multiply with the equation's inverse on the same target completes
   without error and restores the exponent map of the start quantity. *)
C4_RoundTripRestores ==
    /\ pc /= "rt_error"
    /\ pc = "rt_done" => output.units = start.units

(* C4 amended: the second multiply raises KeyError exactly when the first
   multiply cancelled the target unit's exponent to zero; when it
   completes, the exponent map is the start quantity's, except that a
   start exponent of 2 on the target with an equation exponent of -1 gives
   the start map plus twice the equation's map. *)
C4_RoundTripAmended ==
    /\ pc = "rt_error" => last.acted /\ last.target \notin DOMAIN output.units
    /\ pc = "rt_done" =>
         /\ last.target \in DOMAIN last.before.units
         /\ LET e == [u \in DOMAIN last.entry.units |-> -last.entry.units[u]]
            IN output.units =
                 IF start.units[last.target] = 2 /\ e[last.target] = -1
                 THEN PointwiseSum(PointwiseSum(start.units, e), e)
                 ELSE start.units

C4_Witness ==
    /\ pc = "rt_done"
    /\ output.units = start.units
    /\ last.before.units /= start.units
    /\ Abs(start.units[last.target]) = 3

----------------------------------------------------------------------------
(* Properties of rendering (specification SpecSI) *)

SingleNum(r) == Len(r.num.num_powers) = 1

SingleDen(r) == Len(r.den.den_powers) = 1

(* C7: every prefix get_si chooses is a ladder value inside its window: a
   numerator prefix p has |baseExp - p*numExponent| <= 6 and a denominator
   prefix d is within 6 of the baseline it is chosen around. *)
C7_PrefixWindow ==
    pc = "rendered" =>
        LET si == rendered.si
        IN /\ si.num \in Range(SI_KEYS)
           /\ si.den \in Range(SI_KEYS)
           /\ si.use_num =>
                Abs(si.exp - si.num * rendered.num.num_powers[1]) <= 6
           /\ si.use_den => Abs(si.den - si.exp_new) <= 6

(* C8: to_string completes and returns a string for every quantity with a
   finite non-zero coefficient, with and without prefix selection. *)
C8_RenderNeverFails ==
    pc /= "error"

(* C10: with a single numerator exponent n > 0 and a single denominator
   exponent m < 0, the returned adjustment adj and the chosen ladder values
   p and d satisfy adj + p*n + d*m = 0. *)
C10_FoldingPreservesValue ==
    (pc = "rendered" /\ SingleNum(rendered) /\ SingleDen(rendered)) =>
        LET si == rendered.si
        IN si.exp_adj + si.num * rendered.num.num_powers[1]
                      + si.den * rendered.den.den_powers[1] = 0

====
